---- MODULE Spec2Model ----
(***************************************************************************)
(* Model of the two bounded batch runners of the repository:               *)
(*   - process_reviews_parallel / categorize_review / main                  *)
(*       (experiments/common_complaints/review_analysis.py)                 *)
(*   - VideoTranscriber.transcribe_videos / _process_video / main           *)
(*       (experiments/s3/transcribe.py)                                     *)
(* Both run on one asyncio event loop: a coroutine runs without            *)
(* interruption from one await to the next, so an action is the block of   *)
(* statements between two suspension points.  Work handed to               *)
(* run_in_executor runs on a worker thread and is an action of its own.    *)
(* Python indices are 0-based: the task at position i of a TLA+ sequence   *)
(* is the item with index i - 1.                                           *)
(***************************************************************************)
EXTENDS Integers, Sequences, FiniteSets, TLC

\* ------------------------------------------------------------------ bounds
MaxItems == 3          \* longest list of reviews
MaxJobs == 2           \* longest list of video URLs
MaxConcurrency == 2    \* largest concurrency bound tried (smallest is -1)
MaxMatchIds == 3       \* longest list of match ids
MaxRuns == 2           \* how many times the match-date fetcher is started
MaxRetries == 12       \* consecutive 429 responses counted for one id
MaxNames == 6          \* longest list of names a wiki tool is called with

ReviewTexts == {"a", "b"}
VideoUrls == {"u", "v"}

VARIABLES
    program,            \* which entry point runs: "reviews" or "transcribe"
    max_concurrent,     \* max_concurrent / max_concurrent_jobs argument
    pc,                 \* position of the runner coroutine and of main
    semaphore,          \* value of the asyncio.Semaphore
    last_finished,      \* index of the task that finished last (-1: none yet)
    invocations,        \* per task: how often its processor was invoked
    \* review_analysis.py
    reviews,            \* the list passed to process_reviews_parallel
    llm,                \* per review: what the completion API does
    rtask,              \* per review task: "created", "categorize", "done"
    results,            \* slots of asyncio.gather(*tasks, return_exceptions=True)
    processed_results,  \* return value of process_reviews_parallel
    output,             \* the dict main writes to categorized_reviews.json
    \* transcribe.py
    video_urls,         \* the list passed to transcribe_videos
    opensearch_client,  \* TRUE: a client is configured, FALSE: None
    cleanup_files,      \* VideoTranscriber.cleanup_files
    jobs,               \* the TranscriptionJob records, in creation order
    tpc,                \* per job task: position in _process_video
    loop,               \* 0: event loop idle, j: task j runs between awaits
    files,              \* paths that exist in audio_output_dir
    indexed,            \* documents in the search index, by job_id
    summary,            \* main's successful / failed tally
    \* get_match_dates.py
    match_ids,          \* the list read from szge_match_ids.json
    match_dates,        \* the in-memory dict match id -> timestamp
    dates_file,         \* szge_match_dates.json: whether it exists, its JSON object
    delay,              \* back-off delay, in tenths of a second
    idx,                \* position of the for loop in match_ids (0: before the first)
    response_status,    \* response.status_code of the last request for the current id (0: none)
    throttled,          \* the ids the upstream answers with 429 for ever
    retry_count,        \* consecutive 429 responses for the current id, counted up to MaxRetries
    runs,               \* how many times the script has been started
    slept,              \* argument of the last time.sleep, in tenths of a second
    \* lol_wiki.py
    tool,               \* the tool called
    names,              \* the list of names the tool is called with
    task_names,         \* the list after the slice, passed as task_names
    wtask,              \* per parse_wiki_page coroutine: its page and its state
    combined            \* the string returned, as its segments and separators

rvars == <<reviews, llm, rtask, results, processed_results, output>>
tvars == <<video_urls, opensearch_client, cleanup_files, jobs, tpc, loop,
           files, indexed, summary>>
dvars == <<match_ids, match_dates, dates_file, delay, idx, response_status,
           throttled, retry_count, runs, slept>>
wvars == <<tool, names, task_names, wtask, combined>>
vars == <<program, max_concurrent, pc, semaphore, last_finished, invocations,
          rvars, tvars, dvars, wvars>>

\* ------------------------------------------------------------- helpers
RECURSIVE SeqsUpTo(_, _)
SeqsUpTo(S, n) ==
    IF n = 0 THEN {<<>>}
    ELSE LET shorter == SeqsUpTo(S, n - 1)
         IN  shorter \cup {Append(s, x) : s \in {t \in shorter : Len(t) = n - 1}, x \in S}

\* ------------------------------------------------- review_analysis.py
\* CATEGORIES: the major categories and their subcategory keys.
CATEGORIES ==
    [learning_curve_and_complexity |->
        {"learning_champions", "understanding_systems", "steep_curve",
         "bad_tutorial", "mechanics_difficult"},
     hostile_community_environment |-> {"flamed_for_mistakes", "toxic_teammates"},
     matchmaking_issues |->
        {"smurfs", "unfair_matchmaking", "long_queue", "long_matches"},
     time_investment_requirements |-> {"slow_progress"},
     technical_and_interface_issues |-> {"bad_ui", "client_bugs"}]

MajorCategories == DOMAIN CATEGORIES

\* A ReviewCategories value is written as the function from each major category
\* to the set of its subcategory flags that are true.
AllFalse == [m \in MajorCategories |-> {}]

\* ReviewCategories(**kwargs): every one of the five fields is declared without
\* a default, so pydantic raises a ValidationError when one is missing.
\* kwargs is a function from the field names given to their values.
ReviewCategories(kwargs) ==
    IF MajorCategories \subseteq DOMAIN kwargs
    THEN [raised |-> FALSE, value |-> [m \in MajorCategories |-> kwargs[m]]]
    ELSE [raised |-> TRUE, value |-> AllFalse]

NoKwargs == [m \in {} |-> {}]

\* What the completion API does for one request.
\*   "parsed": message.parsed is a ReviewCategories object
\*   "none":   message.parsed is None (refusal, truncated output)
\*   "raise":  the call raises (network error, rate limit, bad key)
LLMResponses == {"parsed", "none", "raise"}

\* The flags the model answers for a review text, when it answers.
Classify(review) ==
    IF review = "a" THEN AllFalse
    ELSE [AllFalse EXCEPT !["matchmaking_issues"] = {"smurfs"},
                          !["hostile_community_environment"] = {"toxic_teammates"}]

NoValue == [review |-> "", categories |-> AllFalse, index |-> -1]

\* categorize_review(review, review_index) given the API's behaviour: the dict
\* it returns, or raised = TRUE when an exception leaves the function.
categorize_review(review, review_index, response) ==
    LET default == ReviewCategories(NoKwargs)
        \* the try block, lines 98-116
        tryRaised == \/ response = "raise"
                     \/ response = "none" /\ default.raised
        tryCategories == IF response = "parsed" THEN Classify(review) ELSE default.value
    IN  IF ~tryRaised
        THEN [raised |-> FALSE,
              value |-> [review |-> review, categories |-> tryCategories,
                         index |-> review_index]]
        \* the except block, lines 118-125
        ELSE IF default.raised
             THEN [raised |-> TRUE, value |-> NoValue]
             ELSE [raised |-> FALSE,
                   value |-> [review |-> review, categories |-> default.value,
                              index |-> review_index]]

\* list.sort(key=lambda x: x['index']): a stable insertion sort.
SortKeyDescending(a, b) == a.index >= b.index

SortKey(a, b) == a.index <= b.index

RECURSIVE Insert(_, _)
Insert(x, sorted) ==
    IF sorted = <<>> THEN <<x>>
    ELSE IF SortKey(sorted[Len(sorted)], x) THEN Append(sorted, x)
    ELSE Append(Insert(x, SubSeq(sorted, 1, Len(sorted) - 1)), sorted[Len(sorted)])

RECURSIVE SortByIndex(_)
SortByIndex(s) ==
    IF s = <<>> THEN <<>>
    ELSE Insert(s[Len(s)], SortByIndex(SubSeq(s, 1, Len(s) - 1)))

\* The loop of lines 154-159: exceptions are skipped, values are kept.
RECURSIVE KeepValues(_)
KeepValues(slots) ==
    IF slots = <<>> THEN <<>>
    ELSE LET rest == KeepValues(Tail(slots))
         IN  IF Head(slots).kind = "exception" THEN rest
             ELSE <<Head(slots).value>> \o rest

\* asyncio.gather(*tasks, return_exceptions=True)
return_exceptions_off == FALSE

return_exceptions == TRUE

\* calculate_frequencies: one counter per subcategory, incremented for every
\* item whose flag is true.
RECURSIVE CountFlagLeading(_, _, _)
CountFlagLeading(categorized, major_cat, subcat) ==
    IF categorized = <<>> THEN 0
    ELSE IF subcat \in Head(categorized).categories[major_cat]
         THEN 1 + CountFlagLeading(Tail(categorized), major_cat, subcat)
         ELSE 0

RECURSIVE CountFlag(_, _, _)
CountFlag(categorized, major_cat, subcat) ==
    IF categorized = <<>> THEN 0
    ELSE LET item == Head(categorized)
             hit == /\ major_cat \in DOMAIN item.categories
                    /\ subcat \in item.categories[major_cat]
                    /\ subcat \in CATEGORIES[major_cat]
         IN  (IF hit THEN 1 ELSE 0) + CountFlag(Tail(categorized), major_cat, subcat)

calculate_frequencies(categorized) ==
    [major_cat \in MajorCategories |->
        [subcat \in CATEGORIES[major_cat] |-> CountFlag(categorized, major_cat, subcat)]]

NoOutput == [num_reviews |-> -1, processed_reviews |-> -1,
             complaint_categories |-> calculate_frequencies(<<>>)]

PendingSlot == [kind |-> "pending", value |-> NoValue]


\* --------------------------------------------------------- transcribe.py
\* ProcessingStage, in declaration order.
ProcessingStage ==
    <<"pending", "downloading", "transcribing", "summarizing", "uploading",
      "completed", "failed">>

None == "None"

\* TranscriptionJob(url=url, job_id=...): the dataclass defaults.  job_id is a
\* uuid4, written as the position of the job in the batch.
TranscriptionJob(url, job_id) ==
    [url |-> url, job_id |-> job_id, title |-> None, status |-> "pending",
     transcription |-> None, summary |-> None, error |-> None,
     completed_at |-> None, audio_file_path |-> None]

\* _download_audio: info['id'] of a URL, and the file _preprocess_audio writes.
VideoId(url) == url

ProcessedAudioFile(video_id) ==
    IF video_id = "u" THEN "u_processed.mp3" ELSE "v_processed.mp3"

\* The document _upload_to_opensearch builds from the job at the time it runs.
Document(job) ==
    [job_id |-> job.job_id, url |-> job.url, title |-> job.title,
     transcription |-> job.transcription, summary |-> job.summary,
     completed_at |-> job.completed_at,
     processing_time_seconds |->
         IF job.completed_at # None THEN "elapsed" ELSE None,
     status |-> job.status]

NoSummary == [successful |-> -1, failed |-> -1, total |-> -1]

\* Job updates of _process_video, one per block of assignments.
\* Line 138.
DownloadStarted(job) == [job EXCEPT !.status = "downloading"]

\* Lines 140-146.
DownloadReturned(job, audio_path) ==
    [job EXCEPT !.audio_file_path = audio_path, !.title = "title",
                !.status = "transcribing"]

\* Lines 159-160.
CompletedWithoutDate(job) == [job EXCEPT !.status = "completed"]

Completed(job) == [job EXCEPT !.completed_at = "now", !.status = "completed"]

\* Lines 148-160, up to the next await or to the end of the try block.
TranscriptionReturnedCompletingFirst(job, client) ==
    Completed([job EXCEPT !.transcription = "text"])

TranscriptionReturned(job, client) ==
    LET transcribed == [job EXCEPT !.transcription = "text"]
    IN  IF client THEN [transcribed EXCEPT !.status = "uploading"]
        ELSE Completed(transcribed)

\* Lines 163-164.
ExceptionRetried(job, e) == [job EXCEPT !.error = e, !.status = "pending"]

ExceptionRaised(job, e) == [job EXCEPT !.error = e, !.status = "failed"]

\* Lines 167-172: the cleanup removes the file and writes no field of the job.
CleanupClearsPath(job) == [job EXCEPT !.audio_file_path = None]

JobAfterCleanup(job) == job

\* asyncio.Semaphore: acquire() returns at once while the value is positive
\* and suspends the task otherwise; release() adds one.  Which suspended task
\* is woken first is left open: every wake-up order is a behaviour.
AcquirableAlways(value) == TRUE

Acquirable(value) == value > 0

\* release(), called as the "async with" block is left, whether the processor
\* returned or raised.
ReleaseOnSuccessOnly(value, raised) == IF raised THEN value ELSE value + 1

Release(value, raised) == value + 1

\* Lines 142-145: one coroutine per review of the list, none for an empty list.
CreateTasksWithDefault(items) == [i \in 1..(IF items = <<>> THEN 1 ELSE Len(items)) |-> "created"]

CreateTasks(items) == [i \in 1..Len(items) |-> "created"]

\* _generate_job_id: a fresh uuid4 per job, written as the job's position.
GenerateJobIdFromUrl(position, url) == url

GenerateJobId(position, url) == position

\* max_retries (default 2) is stored at line 96 and read nowhere: a failed
\* stage is never run again.
max_retries == 2

ShouldRetryWhileAllowed(attempts, retries) == attempts <= retries

ShouldRetry(attempts, retries) == FALSE

\* -------------------------------------------------- get_match_dates.py
MatchIds == {"m1", "m2"}

\* data.get('info', {}).get('gameStartTimestamp'): a timestamp, or None.
Timestamps == {"ts", None}

\* Line 26 and line 47: delay = 0.1, in tenths of a second.
BaseDelay == 1

\* Line 36: the cap of 60 s, in tenths of a second.
MaxDelay == 600

EmptyDict == [k \in {} |-> None]

\* json.dump(match_dates, f) writes the object as its key/value members;
\* json.load(f) builds the dict back.  Keys are strings, values a number or null.
JsonDump(dict) == {<<k, dict[k]>> : k \in DOMAIN dict}

JsonLoad(members) ==
    [k \in {member[1] : member \in members} |->
        (CHOOSE member \in members : member[1] = k)[2]]

NoFile == [exists |-> FALSE, members |-> {}]

\* Lines 20-24: the existing progress, or an empty dict.
LoadProgress(file) == IF file.exists THEN JsonLoad(file.members) ELSE EmptyDict

\* Line 28: an id already in match_dates is skipped.
NeverSkipped(match_id, dates) == FALSE

AlreadyProcessed(match_id, dates) == match_id \in DOMAIN dates

\* Lines 33-40: what the loop does with a status code.
StatusCodes == {200, 429, 404}

HandlingGivesUpOn429(status_code) ==
    IF status_code # 200 THEN "abandon" ELSE "record"

Handling(status_code) ==
    IF status_code = 429 THEN "retry"
    ELSE IF status_code # 200 THEN "abandon"
    ELSE "record"

\* Line 32: the status codes the upstream may answer a request for an id with.
Upstream(match_id, always_429) ==
    IF match_id \in always_429 THEN {429} ELSE StatusCodes

\* Lines 30-37: "while True" has no retry cap; a 429 is retried whatever the
\* number of retries before it.
RetryCapReachedAtMax(n) == n >= MaxRetries

RetryCapReached(n) == FALSE

\* Line 36: min(delay * 2, 60).
BackOffWithoutGrowth(d) == d

BackOff(d) == IF d * 2 < MaxDelay THEN d * 2 ELSE MaxDelay

\* --------------------------------------------------------- lol_wiki.py
Tools == {"get_champion_data", "get_runes_data", "get_summoner_spell_data",
          "get_item_data", "get_monster_data"}

\* The names a tool is called with: the first names of this list.
PageNames == <<"Janna", "Ahri", "Braum", "Corki", "Diana", "Ezreal", "Fiora",
               "Garen">>

MAX_CHAMPIONS_PER_CALL == 5

MAX_RUNES_PER_CALL == 5

MAX_SUMMONER_SPELLS_PER_CALL == 5

MAX_ITEMS_PER_CALL == 5

MAX_MONSTERS_PER_CALL == 5

MaxPerCall(t) ==
    CASE t = "get_champion_data" -> MAX_CHAMPIONS_PER_CALL
      [] t = "get_runes_data" -> MAX_RUNES_PER_CALL
      [] t = "get_summoner_spell_data" -> MAX_SUMMONER_SPELLS_PER_CALL
      [] t = "get_item_data" -> MAX_ITEMS_PER_CALL
      [] t = "get_monster_data" -> MAX_MONSTERS_PER_CALL

PageType(t) ==
    CASE t = "get_champion_data" -> "CHAMPION"
      [] t = "get_runes_data" -> "RUNE"
      [] t = "get_summoner_spell_data" -> "SUMMONER_SPELL"
      [] t = "get_item_data" -> "ITEM"
      [] t = "get_monster_data" -> "MONSTER"

\* list[:n] for n >= 0.
SliceInclusive(list, n) ==
    SubSeq(list, 1, IF Len(list) < n + 1 THEN Len(list) ELSE n + 1)

Slice(list, n) == SubSeq(list, 1, IF Len(list) < n THEN Len(list) ELSE n)

\* What a page request meets: a 200 response with a page, a non-200 response
\* (raise_for_status raises), a network error, malformed markup that the
\* parser reads anyway, malformed markup on which the processing raises,
\* and an exception while the client is set up, before the try.
PageResponses == {"ok", "non_200", "network_error", "malformed_read",
                  "malformed_raises", "client_error"}

\* parse_wiki_page: the page text, None for anything raised inside the try;
\* an exception raised outside the try leaves the coroutine.
parse_wiki_page(page_response) ==
    CASE page_response \in {"ok", "malformed_read"} -> "text"
      [] page_response \in {"non_200", "network_error", "malformed_raises"} -> "none"
      [] page_response = "client_error" -> "raised"

\* Line 113: the name of task i.
TaskName(names_given, i) ==
    IF i <= Len(names_given) THEN names_given[i] ELSE "Task"

\* Lines 115-121: the entry of combined_data for one result.
Segment(result, task_name) ==
    IF result = "raised" THEN [kind |-> "Error executing", of |-> task_name]
    ELSE IF result = "none" THEN [kind |-> "Error fetching data for", of |-> task_name]
    ELSE [kind |-> "text", of |-> task_name]

\* Lines 111-121: one entry per result, in the order of the results.
RECURSIVE combined_data_without_failures(_, _, _)
combined_data_without_failures(gathered, names_given, i) ==
    IF i > Len(gathered) THEN <<>>
    ELSE (IF gathered[i].state = "text"
          THEN <<Segment(gathered[i].state, TaskName(names_given, i))>>
          ELSE <<>>)
         \o combined_data_without_failures(gathered, names_given, i + 1)

RECURSIVE combined_data(_, _, _)
combined_data(gathered, names_given, i) ==
    IF i > Len(gathered) THEN <<>>
    ELSE <<Segment(gathered[i].state, TaskName(names_given, i))>>
         \o combined_data(gathered, names_given, i + 1)

\* The default separator of execute_tasks_and_combine.
separator == [kind |-> "separator", of |-> "\\n\\n"]

\* separator.join(combined_data): the entries with the separator between them.
RECURSIVE Join(_, _)
Join(sep, list) ==
    IF Len(list) <= 1 THEN list
    ELSE <<Head(list), sep>> \o Join(sep, Tail(list))

\* ------------------------------------------------------------------ Init
Init ==
    /\ program \in {"reviews", "transcribe", "dates", "wiki"}
    /\ max_concurrent \in (IF program \in {"reviews", "transcribe"}
                            THEN -1..MaxConcurrency ELSE {0})
    /\ pc = "call"
    /\ semaphore = 0
    /\ last_finished = -1
    /\ invocations = <<>>
    /\ reviews \in (IF program = "reviews" THEN SeqsUpTo(ReviewTexts, MaxItems) ELSE {<<>>})
    /\ llm \in [1..Len(reviews) -> LLMResponses]
    /\ rtask = <<>>
    /\ results = <<>>
    /\ processed_results = <<>>
    /\ output = NoOutput
    /\ video_urls \in (IF program = "transcribe" THEN SeqsUpTo(VideoUrls, MaxJobs) ELSE {<<>>})
    /\ opensearch_client \in (IF program = "transcribe" THEN BOOLEAN ELSE {FALSE})
    /\ cleanup_files \in (IF program = "transcribe" THEN BOOLEAN ELSE {FALSE})
    /\ jobs = <<>>
    /\ tpc = <<>>
    /\ loop = 0
    /\ files = {}
    /\ indexed = {}
    /\ summary = NoSummary
    /\ match_ids \in (IF program = "dates" THEN SeqsUpTo(MatchIds, MaxMatchIds) ELSE {<<>>})
    /\ match_dates = EmptyDict
    /\ dates_file \in (IF program = "dates"
                        THEN {NoFile} \cup
                             {[exists |-> TRUE, members |-> JsonDump(d)] :
                                 d \in UNION {[S -> Timestamps] : S \in SUBSET MatchIds}}
                        ELSE {NoFile})
    /\ delay = BaseDelay
    /\ idx = 0
    /\ response_status = 0
    /\ throttled \in (IF program = "dates" THEN SUBSET MatchIds ELSE {{}})
    /\ retry_count = 0
    /\ runs = 0
    /\ slept = 0
    /\ tool \in (IF program = "wiki" THEN Tools ELSE {"none"})
    /\ names \in (IF program = "wiki"
                   THEN {SubSeq(PageNames, 1, n) : n \in 0..MaxNames}
                   ELSE {<<>>})
    /\ task_names = <<>>
    /\ wtask = <<>>
    /\ combined = <<>>

\* ---------------------------------------------- process_reviews_parallel
\* Lines 132-148, up to the await of gather: asyncio.Semaphore(value) raises
\* ValueError for a negative value and accepts 0; one coroutine per review.
ProcessReviewsParallel ==
    /\ program = "reviews"
    /\ pc = "call"
    /\ IF max_concurrent < 0
       THEN /\ pc' = "raised"
            /\ UNCHANGED <<semaphore, rtask, results, invocations>>
       ELSE /\ pc' = "gather"
            /\ semaphore' = max_concurrent
            /\ rtask' = CreateTasks(reviews)
            /\ results' = [i \in 1..Len(reviews) |-> PendingSlot]
            /\ invocations' = [i \in 1..Len(reviews) |-> 0]
    /\ UNCHANGED <<dvars, wvars, program, max_concurrent, last_finished, reviews, llm,
                   processed_results, output, tvars>>

\* process_single_review: "async with semaphore" acquires a permit, then
\* categorize_review sends the request and awaits the response.
ProcessSingleReviewStart(i) ==
    /\ program = "reviews"
    /\ i \in DOMAIN rtask
    /\ rtask[i] = "created"
    /\ Acquirable(semaphore)
    /\ semaphore' = semaphore - 1
    /\ rtask' = [rtask EXCEPT ![i] = "categorize"]
    /\ invocations' = [invocations EXCEPT ![i] = @ + 1]
    /\ UNCHANGED <<dvars, wvars, program, max_concurrent, pc, last_finished, reviews, llm,
                   results, processed_results, output, tvars>>

\* The response arrives: categorize_review runs to its return or raise, the
\* "async with" releases the permit, and gather stores the task's outcome in
\* the slot of the task.
ProcessSingleReviewFinish(i) ==
    /\ program = "reviews"
    /\ i \in DOMAIN rtask
    /\ rtask[i] = "categorize"
    /\ LET r == categorize_review(reviews[i], i - 1, llm[i])
       IN  /\ results' = [results EXCEPT ![i] =
                [kind |-> IF r.raised THEN "exception" ELSE "value", value |-> r.value]]
           /\ semaphore' = Release(semaphore, r.raised)
    /\ rtask' = [rtask EXCEPT ![i] = "done"]
    /\ last_finished' = i - 1
    /\ UNCHANGED <<dvars, wvars, invocations, program, max_concurrent, pc, reviews, llm,
                   processed_results, output, tvars>>

\* Lines 148-164: gather returns once every task is done (with
\* return_exceptions=False it would raise on the first exception instead);
\* exceptions are skipped, the rest is sorted by 'index' and returned.
GatherReviews ==
    /\ program = "reviews"
    /\ pc = "gather"
    /\ LET failed == \E i \in DOMAIN results : results[i].kind = "exception"
       IN  IF ~return_exceptions /\ failed
           THEN /\ pc' = "raised"
                /\ UNCHANGED processed_results
           ELSE /\ \A i \in DOMAIN rtask : rtask[i] = "done"
                /\ pc' = "returned"
                /\ processed_results' = SortByIndex(KeepValues(results))
    /\ UNCHANGED <<dvars, wvars, invocations, program, max_concurrent, semaphore, last_finished, reviews,
                   llm, rtask, results, output, tvars>>

\* main, lines 199-208.
MainReviews ==
    /\ program = "reviews"
    /\ pc = "returned"
    /\ pc' = "done"
    /\ output' = [num_reviews |-> Len(reviews),
                  processed_reviews |-> Len(processed_results),
                  complaint_categories |-> calculate_frequencies(processed_results)]
    /\ UNCHANGED <<dvars, wvars, invocations, program, max_concurrent, semaphore, last_finished, reviews,
                   llm, rtask, results, processed_results, tvars>>


\* ------------------------------------------------------ VideoTranscriber
\* __init__, lines 95-101: asyncio.Semaphore(max_concurrent_jobs) raises
\* ValueError for a negative value and accepts 0.
VideoTranscriberInit ==
    /\ program = "transcribe"
    /\ pc = "call"
    /\ IF max_concurrent < 0
       THEN pc' = "raised" /\ UNCHANGED semaphore
       ELSE pc' = "constructed" /\ semaphore' = max_concurrent
    /\ UNCHANGED <<dvars, wvars, invocations, program, max_concurrent, last_finished, rvars, tvars>>

\* transcribe_videos, lines 109-127: one job and one task per URL, in order,
\* then the await of gather.
TranscribeVideos ==
    /\ program = "transcribe"
    /\ pc = "constructed"
    /\ pc' = "gather"
    /\ jobs' = [j \in 1..Len(video_urls) |->
                    TranscriptionJob(video_urls[j], GenerateJobId(j, video_urls[j]))]
    /\ tpc' = [j \in 1..Len(video_urls) |-> "pending"]
    /\ invocations' = [j \in 1..Len(video_urls) |-> 0]
    /\ UNCHANGED <<dvars, wvars, program, max_concurrent, semaphore, last_finished, rvars,
                   video_urls, opensearch_client, cleanup_files, loop, files,
                   indexed, summary>>

\* _process_video_with_semaphore acquires a permit; _process_video sets
\* DOWNLOADING and awaits the download running on an executor thread
\* (lines 132-139).
ProcessVideoStart(j) ==
    /\ j \in DOMAIN tpc
    /\ tpc[j] = "pending"
    /\ loop = 0
    /\ Acquirable(semaphore)
    /\ semaphore' = semaphore - 1
    /\ jobs' = [jobs EXCEPT ![j] = DownloadStarted(jobs[j])]
    /\ tpc' = [tpc EXCEPT ![j] = "download"]
    /\ invocations' = [invocations EXCEPT ![j] = @ + 1]
    /\ UNCHANGED <<dvars, wvars, program, max_concurrent, pc, last_finished, rvars,
                   video_urls, opensearch_client, cleanup_files, loop, files,
                   indexed, summary>>

\* _download_audio.download on the executor thread, lines 178-214: it leaves
\* the processed file in audio_output_dir and returns its path, or raises.
DownloadThread(j) ==
    /\ j \in DOMAIN tpc
    /\ tpc[j] = "download"
    /\ \E ok \in BOOLEAN :
        IF ok
        THEN /\ files' = files \cup {ProcessedAudioFile(VideoId(jobs[j].url))}
             /\ tpc' = [tpc EXCEPT ![j] = "download_ok"]
        ELSE /\ tpc' = [tpc EXCEPT ![j] = "download_err"]
             /\ UNCHANGED files
    /\ UNCHANGED <<dvars, wvars, invocations, program, max_concurrent, pc, semaphore, last_finished, rvars,
                   video_urls, opensearch_client, cleanup_files, jobs, loop,
                   indexed, summary>>

\* Lines 140-147: the download returned; the path and title are stored,
\* the status becomes TRANSCRIBING and the transcription is awaited.
AfterDownload(j) ==
    /\ j \in DOMAIN tpc
    /\ tpc[j] = "download_ok"
    /\ loop = 0
    /\ jobs' = [jobs EXCEPT ![j] =
                DownloadReturned(jobs[j], ProcessedAudioFile(VideoId(jobs[j].url)))]
    /\ tpc' = [tpc EXCEPT ![j] = "transcribe"]
    /\ UNCHANGED <<dvars, wvars, invocations, program, max_concurrent, pc, semaphore, last_finished, rvars,
                   video_urls, opensearch_client, cleanup_files, loop, files,
                   indexed, summary>>

\* _transcribe_audio.transcribe on the executor thread, lines 299-309: open()
\* raises when the file is gone; otherwise the API call returns text or raises.
TranscribeThread(j) ==
    /\ j \in DOMAIN tpc
    /\ tpc[j] = "transcribe"
    /\ \E ok \in BOOLEAN :
        tpc' = [tpc EXCEPT ![j] =
                  IF ok /\ jobs[j].audio_file_path \in files
                  THEN "transcribe_ok" ELSE "transcribe_err"]
    /\ UNCHANGED <<dvars, wvars, invocations, program, max_concurrent, pc, semaphore, last_finished, rvars,
                   video_urls, opensearch_client, cleanup_files, jobs, loop,
                   files, indexed, summary>>

\* Lines 148-160: the transcription returned.  With a search client the status
\* becomes UPLOADING and the upload is awaited; without one the job completes.
AfterTranscribe(j) ==
    /\ j \in DOMAIN tpc
    /\ tpc[j] = "transcribe_ok"
    /\ loop = 0
    /\ jobs' = [jobs EXCEPT ![j] = TranscriptionReturned(jobs[j], opensearch_client)]
    /\ IF opensearch_client
       THEN /\ tpc' = [tpc EXCEPT ![j] = "upload"]
            /\ UNCHANGED loop
       ELSE /\ tpc' = [tpc EXCEPT ![j] = "finally"]
            /\ loop' = j
    /\ UNCHANGED <<dvars, wvars, invocations, program, max_concurrent, pc, semaphore, last_finished, rvars,
                   video_urls, opensearch_client, cleanup_files, files,
                   indexed, summary>>

\* _upload_to_opensearch.upload on the executor thread, lines 360-381: the
\* document is built from the job as it is now and indexed under its job_id.
UploadThread(j) ==
    /\ j \in DOMAIN tpc
    /\ tpc[j] = "upload"
    /\ \E ok \in BOOLEAN :
        IF ok
        THEN /\ indexed' = {d \in indexed : d.job_id # jobs[j].job_id}
                              \cup {Document(jobs[j])}
             /\ tpc' = [tpc EXCEPT ![j] = "upload_ok"]
        ELSE /\ tpc' = [tpc EXCEPT ![j] = "upload_err"]
             /\ UNCHANGED indexed
    /\ UNCHANGED <<dvars, wvars, invocations, program, max_concurrent, pc, semaphore, last_finished, rvars,
                   video_urls, opensearch_client, cleanup_files, jobs, loop,
                   files, summary>>

\* Lines 159-160 after the upload returned.
AfterUpload(j) ==
    /\ j \in DOMAIN tpc
    /\ tpc[j] = "upload_ok"
    /\ loop = 0
    /\ jobs' = [jobs EXCEPT ![j] = Completed(jobs[j])]
    /\ tpc' = [tpc EXCEPT ![j] = "finally"]
    /\ loop' = j
    /\ UNCHANGED <<dvars, wvars, invocations, program, max_concurrent, pc, semaphore, last_finished, rvars,
                   video_urls, opensearch_client, cleanup_files, files,
                   indexed, summary>>

\* The except block, lines 162-165: the awaited stage raised.
ErrorOf(position) ==
    CASE position = "download_err" -> "download failed"
      [] position = "transcribe_err" -> "transcription failed"
      [] position = "upload_err" -> "upload failed"

Except(j) ==
    /\ j \in DOMAIN tpc
    /\ tpc[j] \in {"download_err", "transcribe_err", "upload_err"}
    /\ loop = 0
    /\ IF ShouldRetry(invocations[j], max_retries)
       THEN /\ jobs' = [jobs EXCEPT ![j] = DownloadStarted(jobs[j])]
            /\ tpc' = [tpc EXCEPT ![j] = "download"]
            /\ invocations' = [invocations EXCEPT ![j] = @ + 1]
            /\ UNCHANGED loop
       ELSE /\ jobs' = [jobs EXCEPT ![j] = ExceptionRaised(jobs[j], ErrorOf(tpc[j]))]
            /\ tpc' = [tpc EXCEPT ![j] = "finally"]
            /\ loop' = j
            /\ UNCHANGED invocations
    /\ UNCHANGED <<dvars, wvars, program, max_concurrent, pc, semaphore, last_finished, rvars,
                   video_urls, opensearch_client, cleanup_files, files,
                   indexed, summary>>

\* The finally block, then the release of the permit as the "async with" of
\* line 132 is left; the task is done.
Finally(j) ==
    /\ j \in DOMAIN tpc
    /\ tpc[j] = "finally"
    /\ loop = j
    /\ LET path == jobs[j].audio_file_path
       IN  IF cleanup_files /\ path # None /\ path \in files
           THEN /\ files' = files \ {path}
                /\ jobs' = [jobs EXCEPT ![j] = JobAfterCleanup(jobs[j])]
           ELSE UNCHANGED <<files, jobs>>
    /\ semaphore' = Release(semaphore, jobs[j].status = "failed")
    /\ tpc' = [tpc EXCEPT ![j] = "done"]
    /\ loop' = 0
    /\ last_finished' = j - 1
    /\ UNCHANGED <<dvars, wvars, invocations, program, max_concurrent, pc, rvars, video_urls,
                   opensearch_client, cleanup_files, indexed, summary>>

\* Lines 127-129: gather returns once every task is done; the jobs list is
\* returned as it was built.
GatherVideos ==
    /\ program = "transcribe"
    /\ pc = "gather"
    /\ loop = 0
    /\ \A j \in DOMAIN tpc : tpc[j] = "done"
    /\ pc' = "returned"
    /\ UNCHANGED <<dvars, wvars, invocations, program, max_concurrent, semaphore, last_finished, rvars, tvars>>

\* main, lines 430-435: the tally of the summary.
MainVideos ==
    /\ program = "transcribe"
    /\ pc = "returned"
    /\ pc' = "done"
    /\ summary' = [successful |-> Cardinality({j \in DOMAIN jobs : jobs[j].status = "completed"}),
                   failed |-> Cardinality({j \in DOMAIN jobs : jobs[j].status = "failed"}),
                   total |-> Len(jobs)]
    /\ UNCHANGED <<dvars, wvars, invocations, program, max_concurrent, semaphore, last_finished, rvars,
                   video_urls, opensearch_client, cleanup_files, jobs, tpc,
                   loop, files, indexed>>

\* ------------------------------------------------------ get_match_dates
\* main, lines 14-26: the ids and the existing progress are read.
DatesLoad ==
    /\ program = "dates"
    /\ pc = "call"
    /\ pc' = "for"
    /\ match_dates' = LoadProgress(dates_file)
    /\ delay' = BaseDelay
    /\ idx' = 0
    /\ response_status' = 0
    /\ runs' = runs + 1
    /\ retry_count' = 0
    /\ UNCHANGED <<program, max_concurrent, semaphore, last_finished, invocations,
                   rvars, tvars, wvars, match_ids, dates_file, slept, throttled>>

\* Lines 27-30: the for loop takes the next id, skips it when it is already
\* recorded, and ends after the last one.
DatesNextId ==
    /\ program = "dates"
    /\ pc = "for"
    /\ IF idx = Len(match_ids)
       THEN /\ pc' = "exhausted"
            /\ UNCHANGED <<idx, response_status, retry_count>>
       ELSE /\ idx' = idx + 1
            /\ response_status' = 0
            /\ retry_count' = 0
            /\ pc' = IF AlreadyProcessed(match_ids[idx + 1], match_dates)
                     THEN "for" ELSE "request"
    /\ UNCHANGED <<program, max_concurrent, semaphore, last_finished, invocations,
                   rvars, tvars, wvars, match_ids, match_dates, dates_file, delay,
                   runs, slept, throttled>>

\* Lines 31-49: one pass of the while loop: the request and what follows it.
DatesRequest ==
    /\ program = "dates"
    /\ pc = "request"
    /\ \E status_code \in Upstream(match_ids[idx], throttled),
          timestamp \in Timestamps :
        /\ response_status' = status_code
        /\ CASE Handling(status_code) = "retry" ->
                 /\ slept' = delay
                 /\ delay' = BackOff(delay)
                 /\ pc' = IF RetryCapReached(retry_count) THEN "for" ELSE "request"
                 /\ retry_count' = IF retry_count < MaxRetries THEN retry_count + 1 ELSE retry_count
                 /\ UNCHANGED <<match_dates, dates_file>>
             [] Handling(status_code) = "abandon" ->
                 /\ pc' = "for"
                 /\ UNCHANGED <<match_dates, dates_file, delay, slept, retry_count>>
             [] Handling(status_code) = "record" ->
                 LET dates == [k \in DOMAIN match_dates \cup {match_ids[idx]} |->
                                 IF k = match_ids[idx] THEN timestamp ELSE match_dates[k]]
                 IN  /\ match_dates' = dates
                     /\ dates_file' = [exists |-> TRUE, members |-> JsonDump(dates)]
                     /\ delay' = BaseDelay
                     /\ slept' = BaseDelay
                     /\ pc' = "for"
                     /\ UNCHANGED retry_count
    /\ UNCHANGED <<program, max_concurrent, semaphore, last_finished, invocations,
                   rvars, tvars, wvars, match_ids, idx, runs, throttled>>

\* The run is interrupted between two statements and the script is started
\* again: only the files on disk survive.
DatesRestart ==
    /\ program = "dates"
    /\ pc \in {"for", "request"}
    /\ runs < MaxRuns
    /\ pc' = "call"
    /\ match_dates' = EmptyDict
    /\ delay' = BaseDelay
    /\ idx' = 0
    /\ response_status' = 0
    /\ slept' = 0
    /\ retry_count' = 0
    /\ UNCHANGED <<program, max_concurrent, semaphore, last_finished, invocations,
                   rvars, tvars, wvars, match_ids, dates_file, runs, throttled>>

\* ------------------------------------------------------------- lol_wiki
\* get_champion_data and the four tools like it, up to the gather of
\* execute_tasks_and_combine: the list is cut, one parse_wiki_page coroutine is
\* made per name left, and all of them are started.
WikiToolCall ==
    /\ program = "wiki"
    /\ pc = "call"
    /\ pc' = "gather"
    /\ task_names' = Slice(names, MaxPerCall(tool))
    /\ wtask' = [k \in 1..Len(task_names') |->
                    [page |-> task_names'[k], page_type |-> PageType(tool),
                     state |-> "fetching"]]
    /\ UNCHANGED <<program, max_concurrent, semaphore, last_finished, invocations,
                   rvars, tvars, dvars, tool, names, combined>>

\* parse_wiki_page, lines 59-87: the request of one coroutine is answered.
WikiFetch(k) ==
    /\ program = "wiki"
    /\ pc = "gather"
    /\ k \in DOMAIN wtask
    /\ wtask[k].state = "fetching"
    /\ \E page_response \in PageResponses :
          wtask' = [wtask EXCEPT ![k].state = parse_wiki_page(page_response)]
    /\ UNCHANGED <<program, max_concurrent, pc, semaphore, last_finished,
                   invocations, rvars, tvars, dvars, tool, names, task_names,
                   combined>>

\* execute_tasks_and_combine, lines 109-123: gather returns once every
\* coroutine is done (with return_exceptions=False it would raise on the first
\* exception instead), and the results are combined.
WikiCombine ==
    /\ program = "wiki"
    /\ pc = "gather"
    /\ LET failed == \E k \in DOMAIN wtask : wtask[k].state = "raised"
       IN  IF ~return_exceptions /\ failed
           THEN /\ pc' = "raised"
                /\ UNCHANGED combined
           ELSE /\ \A k \in DOMAIN wtask : wtask[k].state # "fetching"
                /\ pc' = "combined"
                /\ combined' = Join(separator, combined_data(wtask, task_names, 1))
    /\ UNCHANGED <<program, max_concurrent, semaphore, last_finished, invocations,
                   rvars, tvars, dvars, tool, names, task_names, wtask>>

\* ------------------------------------------------------------------ Next
Next ==
    \/ ProcessReviewsParallel
    \/ \E i \in 1..MaxItems : ProcessSingleReviewStart(i)
    \/ \E i \in 1..MaxItems : ProcessSingleReviewFinish(i)
    \/ GatherReviews
    \/ MainReviews
    \/ VideoTranscriberInit
    \/ TranscribeVideos
    \/ \E j \in 1..MaxJobs : ProcessVideoStart(j)
    \/ \E j \in 1..MaxJobs : DownloadThread(j)
    \/ \E j \in 1..MaxJobs : AfterDownload(j)
    \/ \E j \in 1..MaxJobs : TranscribeThread(j)
    \/ \E j \in 1..MaxJobs : AfterTranscribe(j)
    \/ \E j \in 1..MaxJobs : UploadThread(j)
    \/ \E j \in 1..MaxJobs : AfterUpload(j)
    \/ \E j \in 1..MaxJobs : Except(j)
    \/ \E j \in 1..MaxJobs : Finally(j)
    \/ GatherVideos
    \/ MainVideos
    \/ DatesLoad
    \/ DatesNextId
    \/ DatesRequest
    \/ DatesRestart
    \/ WikiToolCall
    \/ \E k \in 1..MaxNames : WikiFetch(k)
    \/ WikiCombine

Spec == Init /\ [][Next]_vars

\* The event loop runs every task that is ready, and every external call
\* returns or raises.
FairSpec == Spec /\ WF_vars(Next)


\* ---------------------------------------------------------------- claims
Returned == pc \in {"returned", "done"}

Terminal == {"completed", "failed"}

\* The processor invocations that hold a permit: categorize_review calls in
\* flight, or _process_video calls between their first and last statement.
ActiveInvocations ==
    Cardinality({i \in DOMAIN rtask : rtask[i] = "categorize"})
    + Cardinality({j \in DOMAIN tpc : tpc[j] \notin {"pending", "done"}})

Waiting ==
    {i \in DOMAIN rtask : rtask[i] = "created"} \cup {j \in DOMAIN tpc : tpc[j] = "pending"}

\* The reviews whose completion call did not yield a parsed object.
FailedIndices == {i - 1 : i \in {k \in DOMAIN llm : llm[k] # "parsed"}}

ReturnedIndices == {processed_results[k].index : k \in DOMAIN processed_results}

StageRank(stage) == CHOOSE k \in DOMAIN ProcessingStage : ProcessingStage[k] = stage

\* C1: for max_concurrency >= 1 the runner returns exactly N results, one per
\* submitted item, with pairwise distinct indices covering [0, N), also when
\* the processing of some items fails.
C1_ExactlyNResults ==
    (Returned /\ max_concurrent >= 1) =>
        IF program = "reviews"
        THEN /\ Len(processed_results) = Len(reviews)
             /\ ReturnedIndices = 0..(Len(reviews) - 1)
        ELSE /\ Len(jobs) = Len(video_urls)
             /\ \A j, k \in DOMAIN jobs : jobs[j].job_id = jobs[k].job_id => j = k

\* C2: with max_concurrency = K >= 1, no reachable state has more than K
\* processor invocations active; with K = 1 no two invocations overlap.
C2_AtMostKActive ==
    max_concurrent >= 1 => ActiveInvocations <= max_concurrent

\* C2 witness: the gate is full (K invocations active) and a further task waits.
C2_GateFullWitness ==
    /\ max_concurrent >= 1
    /\ ActiveInvocations = max_concurrent
    /\ Waiting # {}

\* C3: with a processor failing for exactly the indices in F, the runner
\* returns a Failure outcome carrying index and error for exactly F and a
\* Success outcome for every other index.
C3_FailureForExactlyF ==
    (Returned /\ max_concurrent >= 1 /\ program = "reviews") =>
        /\ \A i \in FailedIndices :
              \E k \in DOMAIN processed_results :
                  /\ processed_results[k].index = i
                  /\ "error" \in DOMAIN processed_results[k]
        /\ \A i \in (0..(Len(reviews) - 1)) \ FailedIndices :
              \E k \in DOMAIN processed_results :
                  /\ processed_results[k].index = i
                  /\ "error" \notin DOMAIN processed_results[k]

\* C4: the returned sequence is in ascending submission order whatever the
\* completion order: results sorted by 'index' and matching the review at
\* that index, jobs in the order of the input URLs.
C4_AscendingSubmissionOrder ==
    Returned =>
        IF program = "reviews"
        THEN /\ \A k \in 1..(Len(processed_results) - 1) :
                    processed_results[k].index < processed_results[k + 1].index
             /\ \A k \in DOMAIN processed_results :
                    /\ processed_results[k].index + 1 \in DOMAIN reviews
                    /\ processed_results[k].review = reviews[processed_results[k].index + 1]
        ELSE /\ Len(jobs) = Len(video_urls)
             /\ \A j \in DOMAIN jobs : jobs[j].url = video_urls[j] /\ jobs[j].job_id = j

\* C4 witness: item 0 finished last and at least two results were returned.
C4_FirstItemLastWitness ==
    /\ Returned
    /\ program = "reviews"
    /\ Len(processed_results) >= 2
    /\ last_finished = 0

\* C5: a fault of one item never aborts the batch: the call does not raise,
\* and when it returns every task has finished and every item whose own
\* processing did not fail has its own outcome.
C5_FaultDoesNotAbort ==
    /\ max_concurrent >= 1 => pc # "raised"
    /\ Returned =>
        /\ \A i \in DOMAIN rtask : rtask[i] = "done"
        /\ \A i \in DOMAIN reviews :
              llm[i] = "parsed" =>
                  \E k \in DOMAIN processed_results :
                      processed_results[k] =
                          [review |-> reviews[i], categories |-> Classify(reviews[i]),
                           index |-> i - 1]
        /\ \A j \in DOMAIN tpc : tpc[j] = "done" /\ jobs[j].status \in Terminal

\* C5 witness: the call returned although the processing of one item raised,
\* and a sibling of the failed item has its result.
C5_SiblingSurvivesWitness ==
    /\ Returned
    /\ \/ /\ program = "reviews"
          /\ \E i \in DOMAIN results : results[i].kind = "exception"
          /\ processed_results # <<>>
       \/ /\ program = "transcribe"
          /\ \E j, k \in DOMAIN jobs :
                jobs[j].status = "failed" /\ jobs[k].status = "completed"

\* C6: max_concurrency < 1 raises a configuration error at once, before any
\* processor invocation: the call is never past its first step unraised.
C6_InvalidConcurrencyRaises ==
    (max_concurrent < 1 /\ pc # "call") => pc = "raised"

\* C7: every status change of a job is a forward step along the stage order,
\* or a step from a non-terminal status to FAILED.
C7_StatusStepsForward ==
    [][\A j \in DOMAIN jobs :
          (j \in DOMAIN jobs' /\ jobs'[j].status # jobs[j].status) =>
              /\ jobs[j].status \notin Terminal
              /\ \/ jobs'[j].status = "failed"
                 \/ StageRank(jobs'[j].status) > StageRank(jobs[j].status)]_vars

\* C7 witness: one job failed out of UPLOADING, one out of DOWNLOADING.
C7_FailedFromStagesWitness ==
    \E j, k \in DOMAIN jobs :
        /\ jobs[j].status = "failed" /\ jobs[j].error = "upload failed"
        /\ jobs[k].status = "failed" /\ jobs[k].error = "download failed"

\* C8: once a job is COMPLETED or FAILED no later step, the cleanup of the
\* finally block included, changes any field of its record.
C8_TerminalJobsFrozen ==
    [][\A j \in DOMAIN jobs :
          jobs[j].status \in Terminal => (j \in DOMAIN jobs' /\ jobs'[j] = jobs[j])]_vars

\* C8 witness: a terminal job whose task is done and whose audio file the
\* cleanup has removed.
C8_CleanedUpWitness ==
    \E j \in DOMAIN jobs :
        /\ jobs[j].status \in Terminal
        /\ tpc[j] = "done"
        /\ cleanup_files
        /\ jobs[j].audio_file_path # None
        /\ jobs[j].audio_file_path \notin files

AllJobsTallied ==
    /\ pc = "done"
    /\ \A j \in DOMAIN jobs : jobs[j].status \in Terminal
    /\ summary.successful + summary.failed = Len(video_urls)

\* C9: once transcribe_videos has launched a batch, every job eventually
\* reaches COMPLETED or FAILED, the call returns, and the summary's successful
\* plus failed equals the number of submitted URLs.
C9_EveryJobTerminates ==
    (program = "transcribe" /\ pc = "gather") ~> AllJobsTallied

\* The same with a concurrency bound of at least 1.
C9_TerminatesWithPermits ==
    (program = "transcribe" /\ pc = "gather" /\ max_concurrent >= 1) ~> AllJobsTallied

\* C10: the aggregator receives the outcome of every submitted item: the
\* number of processed reviews equals the number submitted, and a failed item
\* is present with all flags false.
C10_AggregatorReceivesEveryOutcome ==
    (program = "reviews" /\ pc = "done") =>
        /\ output.processed_reviews = output.num_reviews
        /\ \A i \in FailedIndices :
              \E k \in DOMAIN processed_results :
                  /\ processed_results[k].index = i
                  /\ processed_results[k].categories = AllFalse


\* C11: when the LLM call of a review fails (raises, or yields no parsed
\* object) categorize_review returns a result with every flag false and the
\* review's index, and propagates no exception.
C11_FailureYieldsAllFalse ==
    \A i \in DOMAIN rtask :
        (rtask[i] = "done" /\ llm[i] # "parsed") =>
            /\ results[i].kind = "value"
            /\ results[i].value =
                  [review |-> reviews[i], categories |-> AllFalse, index |-> i - 1]

RunnerProgram == program \in {"reviews", "transcribe"}

EmptyBatch == RunnerProgram /\ reviews = <<>> /\ video_urls = <<>>

\* C12: for an empty item list the runner returns an empty sequence, creates
\* no task, invokes no processor and takes no permit of the gate.
C12_EmptyBatchReturnsEmpty ==
    EmptyBatch =>
        /\ rtask = <<>> /\ tpc = <<>> /\ invocations = <<>>
        /\ pc \notin {"call", "raised"} => semaphore = max_concurrent
        /\ max_concurrent >= 0 => pc # "raised"
        /\ Returned => (processed_results = <<>> /\ jobs = <<>>)

\* C12 witness: the call on an empty list has returned.
C12_EmptyReturnedWitness == EmptyBatch /\ Returned

\* C17: a job record is written only by the task created for it, in every
\* interleaving and also when a URL occurs twice, and the job ids of a batch
\* are pairwise distinct.
C17_SingleWriterPerJob ==
    /\ [][\A k \in DOMAIN jobs :
              (k \in DOMAIN jobs' /\ jobs'[k] # jobs[k]) =>
                  /\ tpc'[k] # tpc[k]
                  /\ \A m \in DOMAIN tpc : m # k => tpc'[m] = tpc[m]]_vars
    /\ [](\A j, k \in DOMAIN jobs : jobs[j].job_id = jobs[k].job_id => j = k)

\* C17 witness: the same URL twice, both jobs in flight at once, both records
\* already written.
C17_SameUrlTwiceWitness ==
    /\ Len(jobs) = 2
    /\ jobs[1].url = jobs[2].url
    /\ tpc[1] = "transcribe" /\ tpc[2] = "transcribe"

\* C19: permits are conserved: free permits plus active invocations equal
\* max_concurrency in every state, and all permits are free when the batch
\* returns, whether processors succeeded or failed.
C19_PermitsConserved ==
    (RunnerProgram /\ pc \notin {"call", "raised"}) =>
        /\ semaphore + ActiveInvocations = max_concurrent
        /\ Returned => semaphore = max_concurrent

\* C19 witness: the batch returned with one item failed and one succeeded,
\* and every permit is free.
C19_AllFreeAfterFailureWitness ==
    /\ Returned
    /\ semaphore = max_concurrent
    /\ \/ /\ \E i \in DOMAIN results : results[i].kind = "exception"
          /\ \E i \in DOMAIN results : results[i].kind = "value"
       \/ \E j, k \in DOMAIN jobs :
             jobs[j].status = "failed" /\ jobs[k].status = "completed"

\* C20: no retries and no de-duplication: when a run returns, the processor
\* was invoked exactly once for every submitted item, failed items and items
\* with equal input included; no item is ever invoked more than once.
C20_InvokedExactlyOnce ==
    RunnerProgram =>
        /\ \A i \in DOMAIN invocations : invocations[i] <= 1
        /\ Returned =>
              /\ Len(invocations) = Len(reviews) + Len(video_urls)
              /\ \A i \in DOMAIN invocations : invocations[i] = 1

\* C20 witness: a returned batch of two equal items, one of which failed.
C20_EqualItemsOneFailedWitness ==
    /\ Returned
    /\ \/ /\ Len(reviews) = 2 /\ reviews[1] = reviews[2]
          /\ \E i \in DOMAIN results : results[i].kind = "exception"
       \/ /\ Len(video_urls) = 2 /\ video_urls[1] = video_urls[2]
          /\ \E j \in DOMAIN jobs : jobs[j].status = "failed"


Permuted(seq, p) == [k \in 1..Len(seq) |-> seq[p[k]]]

\* C15: calculate_frequencies is an order-independent fold: every permutation
\* of the results gives the table main stored, and each counter is the number
\* of results whose flag is true, between 0 and the number of results.
C15_FrequenciesOrderIndependent ==
    (program = "reviews" /\ pc = "done") =>
        LET n == Len(processed_results)
        IN  /\ \A m \in MajorCategories : \A sc \in CATEGORIES[m] :
                  /\ output.complaint_categories[m][sc] =
                        Cardinality({k \in 1..n : sc \in processed_results[k].categories[m]})
                  /\ output.complaint_categories[m][sc] \in 0..n
            /\ \A p \in Permutations(1..n) :
                  calculate_frequencies(Permuted(processed_results, p))
                      = output.complaint_categories

\* C15 witness: three results, flagged / unflagged / flagged, were aggregated.
C15_MixedFlagsWitness ==
    /\ program = "reviews" /\ pc = "done"
    /\ Len(processed_results) = 3
    /\ output.complaint_categories["matchmaking_issues"]["smurfs"] = 2
    /\ "smurfs" \notin processed_results[2].categories["matchmaking_issues"]

\* The keys of the persisted dates file.
FileKeys == {member[1] : member \in dates_file.members}

\* A step of the while loop that is not an interruption.
RequestStep == program = "dates" /\ pc = "request" /\ pc' # "call"

\* C13: in the match-date fetcher, a 429 response makes the same id be
\* requested again after a back-off sleep, with nothing skipped or recorded;
\* any other non-200 response abandons the id without recording it and the
\* loop goes on with the next id; a 200 response records the id's timestamp.
C13_StatusHandling ==
    [][/\ RequestStep =>
            /\ response_status' = 429 =>
                  /\ pc' = "request" /\ idx' = idx
                  /\ slept' = delay /\ slept' >= BaseDelay
                  /\ match_dates' = match_dates /\ dates_file' = dates_file
            /\ response_status' \notin {200, 429} =>
                  /\ pc' = "for" /\ idx' = idx
                  /\ match_dates' = match_dates /\ dates_file' = dates_file
                  /\ match_ids[idx] \notin DOMAIN match_dates'
            /\ response_status' = 200 =>
                  /\ pc' = "for"
                  /\ match_ids[idx] \in DOMAIN match_dates'
                  /\ match_dates'[match_ids[idx]] \in Timestamps
       /\ (program = "dates" /\ pc = "for" /\ pc' \notin {"call", "exhausted"}) =>
            idx' = idx + 1
      ]_vars

\* The second id is being retried after a 429 while the first one, answered
\* with another non-200 status, was left unrecorded.
C13_RetryAfterAbandonWitness ==
    /\ program = "dates" /\ pc = "request"
    /\ idx = 2 /\ match_ids[1] # match_ids[2]
    /\ response_status = 429 /\ slept = 2 * BaseDelay
    /\ match_ids[1] \notin DOMAIN match_dates

C16_OneSegmentPerTask ==
    (program = "wiki" /\ pc # "call") =>
        /\ pc # "raised"
        /\ pc = "combined" =>
             LET n == Len(wtask)
             IN  /\ Len(combined) = IF n = 0 THEN 0 ELSE 2 * n - 1
                 /\ \A k \in 1..(n - 1) : combined[2 * k] = separator
                 /\ \A k \in 1..n :
                       /\ combined[2 * k - 1].of = task_names[k]
                       /\ combined[2 * k - 1].of = wtask[k].page
                       /\ wtask[k].state \in {"raised", "none"} =>
                             combined[2 * k - 1].kind \in
                                 {"Error executing", "Error fetching data for"}
                       /\ wtask[k].state = "text" =>
                             combined[2 * k - 1].kind = "text"

\* Of three pages the first raised, the second returned None and the third was
\* fetched, and the string was returned.
C16_MixedOutcomesWitness ==
    /\ program = "wiki" /\ pc = "combined"
    /\ Len(wtask) = 3
    /\ wtask[1].state = "raised"
    /\ wtask[2].state = "none"
    /\ wtask[3].state = "text"
    /\ combined[5].kind = "text"

\* C18: each wiki tool call fetches at most 5 pages: exactly the first
\* min(len, 5) names of the input list, in input order; the rest is ignored.
C18_FirstFiveFetched ==
    (program = "wiki" /\ pc # "call") =>
        LET n == IF Len(names) < 5 THEN Len(names) ELSE 5
        IN  /\ Len(wtask) = n
            /\ Len(wtask) <= 5
            /\ \A k \in 1..n : wtask[k].page = names[k]
            /\ \A k \in (n + 1)..Len(names) :
                  \A f \in DOMAIN wtask : wtask[f].page # names[k]

\* A tool was called with six names and returned after its fetches.
C18_SixNamesWitness ==
    /\ program = "wiki" /\ pc = "combined"
    /\ Len(names) = 6
    /\ tool = "get_monster_data"
    /\ Len(wtask) = 5

\* C21: the back-off delay of the match-date fetcher is capped exponential:
\* it always lies between 0.1 s and 60 s; a 429 response sleeps for the
\* current delay and then sets the delay to min(2 * delay, 60 s); a successful
\* fetch resets it to 0.1 s.  Delays are in tenths of a second.
C21_CappedExponentialBackOff ==
    /\ [](program = "dates" => (1 <= delay /\ delay <= 600))
    /\ [][RequestStep =>
            /\ response_status' = 429 =>
                  /\ slept' = delay
                  /\ delay' = IF 2 * delay < 600 THEN 2 * delay ELSE 600
            /\ response_status' = 200 => delay' = 1
      ]_vars

\* The delay has reached the cap: a 429 response slept for the full 60 s and
\* left the delay at 60 s.
C21_DelayAtCapWitness ==
    /\ program = "dates" /\ pc = "request"
    /\ response_status = 429
    /\ slept = 600 /\ delay = 600

\* No id of the list that the run has to request is answered with 429 for
\* ever: every such id is already a key of the file and is skipped.
EveryVisitedIdAnswered ==
    \A k \in 1..Len(match_ids) :
        match_ids[k] \in throttled => match_ids[k] \in FileKeys

\* C22: the match-date fetcher has no retry cap: a 429 is retried however
\* many came before it; the run ends, having gone through every id, exactly
\* when every id it requests is eventually answered with something other
\* than 429; while an id is answered with 429 for ever the run never goes
\* past it.
C22_NoRetryCap ==
    /\ [][(RequestStep /\ response_status' = 429) =>
            /\ pc' = "request" /\ idx' = idx
            /\ retry_count' = IF retry_count < MaxRetries THEN retry_count + 1 ELSE retry_count
      ]_vars
    /\ [][(RequestStep /\ match_ids[idx] \in throttled) =>
            (pc' = "request" /\ idx' = idx)
      ]_vars
    /\ []((program = "dates" /\ pc = "exhausted") => EveryVisitedIdAnswered)
    /\ ((program = "dates" /\ EveryVisitedIdAnswered) ~> pc = "exhausted")

\* The first id of a longer list is answered with 429 for ever: the run has
\* retried it MaxRetries times and is still requesting it.
C22_StuckOnThrottledWitness ==
    /\ program = "dates" /\ pc = "request"
    /\ idx = 1 /\ Len(match_ids) >= 2
    /\ match_ids[1] \in throttled
    /\ retry_count = MaxRetries
    /\ delay = MaxDelay

\* C26: in the match-date fetcher the first request for every match id is
\* made with the back-off delay at its base value of 0.1 s: the back-off of
\* one id never carries over to the next one.
C26_FirstRequestAtBaseDelay ==
    (program = "dates" /\ pc = "request" /\ response_status = 0) =>
        delay = BaseDelay

\* C23: for any batch, also one in which two jobs resolve to the same video
\* id, with two or more concurrent jobs and cleanup enabled, the audio file a
\* job's audio_file_path names is not deleted by another job while the job is
\* in its DOWNLOADING or TRANSCRIBING stage.
C23_AudioFileKeptWhileInUse ==
    \A j \in DOMAIN jobs :
        (/\ jobs[j].status \in {"downloading", "transcribing"}
         /\ jobs[j].audio_file_path # None)
            => jobs[j].audio_file_path \in files

\* C24: every document written to the search index is a snapshot taken
\* before completion: when it is indexed the job's status is UPLOADING and
\* completed_at is unset, so no indexed document records the status
\* 'completed', a completed_at date or a processing time; each job is indexed
\* at most once, under its own job_id.
C24_IndexedBeforeCompletion ==
    /\ [](\A d \in indexed :
            /\ d.status = "uploading"
            /\ d.completed_at = None
            /\ d.processing_time_seconds = None
            /\ \E j \in DOMAIN jobs :
                  /\ jobs[j].job_id = d.job_id
                  /\ jobs[j].url = d.url
                  /\ tpc[j] \in {"upload_ok", "finally", "done"})
    /\ [][indexed' # indexed =>
            \E j \in DOMAIN jobs :
                /\ tpc[j] = "upload"
                /\ jobs[j].status = "uploading"
                /\ jobs[j].completed_at = None
                /\ \A d \in indexed : d.job_id # jobs[j].job_id
                /\ indexed' = indexed \cup {Document(jobs[j])}
      ]_vars

\* Two jobs for the same URL have both completed, and the index holds one
\* document for each, both saying 'uploading'.
C24_CompletedJobsIndexedAsUploadingWitness ==
    /\ program = "transcribe" /\ pc = "done"
    /\ Len(jobs) = 2 /\ jobs[1].url = jobs[2].url
    /\ jobs[1].status = "completed" /\ jobs[2].status = "completed"
    /\ jobs[1].completed_at # None
    /\ Cardinality(indexed) = 2
    /\ \A d \in indexed : d.status = "uploading"

\* C25: terminal-state fields of a TranscriptionJob: whenever the status is
\* COMPLETED, error is unset and title, transcription and completed_at are
\* set; whenever it is FAILED, error is set and completed_at is unset;
\* SUMMARIZING is never reached and summary is never set; UPLOADING is reached
\* only when a search-index client is configured.
C25_TerminalStateFields ==
    \A j \in DOMAIN jobs :
        /\ jobs[j].status = "completed" =>
              /\ jobs[j].error = None
              /\ jobs[j].title # None
              /\ jobs[j].transcription # None
              /\ jobs[j].completed_at # None
        /\ jobs[j].status = "failed" =>
              /\ jobs[j].error # None
              /\ jobs[j].completed_at = None
        /\ jobs[j].status # "summarizing"
        /\ jobs[j].summary = None
        /\ jobs[j].status = "uploading" => opensearch_client

\* With a client configured, one job completed and the other failed in its
\* upload, after its transcription.
C25_CompletedAndFailedInUploadWitness ==
    /\ program = "transcribe" /\ pc = "done"
    /\ opensearch_client
    /\ Len(jobs) = 2
    /\ jobs[1].status = "completed"
    /\ jobs[2].status = "failed"
    /\ jobs[2].error = "upload failed"
    /\ jobs[2].transcription # None

====
